---- MODULE Spec2Model ----
(***************************************************************************)
(* Track cache, audio buffer manager and mixer channel of the player app.   *)
(*                                                                         *)
(* src/track_cache.js holds two units: the track cache (lines 1-184) and    *)
(* the audio buffer manager (lines 186-440).  src/mixer_channel.js holds    *)
(* the MixerChannel class.  The Track model, the AudioGraphStore and the    *)
(* utility modules they import are not part of src/; what the model needs   *)
(* of them is taken from their description in spec.md (section 3).          *)
(***************************************************************************)
EXTENDS Integers, Sequences, FiniteSets, TLC

(***************************************************************************)
(* Bounds of the model and program constants.                               *)
(***************************************************************************)
\* number of distinct track guids the callers ever use
NumTracks == 7
\* number of pLoadSingleTrack calls in one run
MaxCalls == 2
\* number of _destroy calls in one run
MaxRemoves == 1
\* number of tracks bound to channels at one time
MaxPinned == 1
\* length of the longest list given to pLoadTracks
MaxBatchLen == 3
\* number of distinct tracks in the lists given to pLoadTracks
MaxBatchTracks == 3

\* var MAX_TRACKS = 6;
MAX_TRACKS == 6

Tracks == 1..NumTracks
\* "no track": the null of getTrack(), the absent evicted entry
NoTrack == 0

LoadStatuses == {"NOT_LOADED", "LOADING", "LOAD_SUCCESS", "LOAD_FAILED"}

VARIABLES
  _cache,        \* keys of the _cache object, in insertion (= iteration) order
  loadStatus,    \* Track.loadStatus of each track record
  audioBuffer,   \* TRUE iff the track record holds a decoded buffer
  pinned,        \* what AudioGraphStore.getTrackGuids() returns
  calls,         \* the pLoadSingleTrack calls made so far and their promises
  removes,       \* number of _destroy calls made so far
  lastAdd,       \* whether the addTrackAsLoading call of the last step threw, and
                 \* the track it deallocated
  mc,            \* the MixerChannel object (NoChannel before its construction)
  now,           \* audioContext.currentTime, in milliseconds
  orphans,       \* start times of the discarded source nodes that still play
  thrown,        \* TRUE iff addActionMc has thrown TrackNotLoaded
  batch          \* the pLoadTracks call made and its promise (NoBatch if none)

cacheVars == <<_cache, loadStatus, audioBuffer>>
loaderVars == <<_cache, loadStatus, audioBuffer, pinned, calls, removes, lastAdd>>
channelVars == <<mc, now, orphans, thrown>>
vars == <<_cache, loadStatus, audioBuffer, pinned, calls, removes, lastAdd,
          mc, now, orphans, thrown, batch>>

(***************************************************************************)
(* Track record: status transitions.                                        *)
(***************************************************************************)
\* the cache and the track records it refers to, as one value
TC == [cache |-> _cache, status |-> loadStatus, buffer |-> audioBuffer]

isStatusLoading(tc, t) == tc.status[t] = "LOADING"

isStatusLoadSuccess(tc, t) == tc.status[t] = "LOAD_SUCCESS"

setStatusLoading(tc, t) == [tc EXCEPT !.status[t] = "LOADING"]

setStatusLoadFailed(tc, t) == [tc EXCEPT !.status[t] = "LOAD_FAILED"]

setStatusNotLoaded(tc, t, shouldUnloadBuffer) ==
  [tc EXCEPT !.status[t] = "NOT_LOADED",
             !.buffer[t] = IF shouldUnloadBuffer THEN FALSE ELSE @]

\* "set audio buffer also sets status as load success"
setAudioBuffer(tc, t) ==
  [tc EXCEPT !.status[t] = "LOAD_SUCCESS", !.buffer[t] = TRUE]

(***************************************************************************)
(* Track cache.                                                             *)
(***************************************************************************)
contains(tc, trackGuid) == \E i \in 1..Len(tc.cache) : tc.cache[i] = trackGuid

getTrack(tc, trackGuid) == IF contains(tc, trackGuid) THEN trackGuid ELSE NoTrack

_getNumTracksLoadedOrLoading(tc) ==
  Cardinality({i \in 1..Len(tc.cache) :
                 isStatusLoadSuccess(tc, tc.cache[i]) \/ isStatusLoading(tc, tc.cache[i])})

\* positions of the entries the scan of _checkAndMakeSpace may deallocate
FreeablePositions(tc, trackGuidsInChannels) ==
  {i \in 1..Len(tc.cache) :
     isStatusLoadSuccess(tc, tc.cache[i]) /\ tc.cache[i] \notin trackGuidsInChannels}

\* a scan that forgets the channels' tracks
FirstFreeableIgnoringChannels(tc, trackGuidsInChannels) ==
  LET S == {i \in 1..Len(tc.cache) : isStatusLoadSuccess(tc, tc.cache[i])}
  IN IF S = {} THEN 0 ELSE CHOOSE i \in S : \A j \in S : i <= j

\* a scan that keeps going and deallocates the last match
LastFreeable(tc, trackGuidsInChannels) ==
  LET S == FreeablePositions(tc, trackGuidsInChannels)
  IN IF S = {} THEN 0 ELSE CHOOSE i \in S : \A j \in S : j <= i

\* the first position, in iteration order, the scan deallocates; 0 if none
FirstFreeable(tc, trackGuidsInChannels) ==
  LET S == FreeablePositions(tc, trackGuidsInChannels)
  IN IF S = {} THEN 0 ELSE CHOOSE i \in S : \A j \in S : i <= j

\* result: ok = the Boolean returned, tc = the cache afterwards,
\* evicted = the track set to NOT_LOADED (NoTrack if none)
_checkAndMakeSpace(tc, trackGuidsInChannels, targetTrackGuid) ==
  IF _getNumTracksLoadedOrLoading(tc) >= MAX_TRACKS
  THEN IF contains(tc, targetTrackGuid)
          /\ (isStatusLoadSuccess(tc, targetTrackGuid)
              \/ isStatusLoading(tc, targetTrackGuid))
       THEN [ok |-> TRUE, tc |-> tc, evicted |-> NoTrack]
       ELSE LET i == FirstFreeable(tc, trackGuidsInChannels)
            IN IF i # 0
               THEN [ok |-> TRUE,
                     tc |-> setStatusNotLoaded(tc, tc.cache[i], TRUE),
                     evicted |-> tc.cache[i]]
               ELSE [ok |-> FALSE, tc |-> tc, evicted |-> NoTrack]
  ELSE [ok |-> TRUE, tc |-> tc, evicted |-> NoTrack]

\* addTrackAsLoading with track.setStatusLoading() moved before the check
addTrackAsLoadingMarkFirst(tc, trackGuidsInChannels, track) ==
  LET tc0 == setStatusLoading(tc, track)
      r == _checkAndMakeSpace(tc0, trackGuidsInChannels, track)
  IN IF ~r.ok
     THEN [threw |-> TRUE, tc |-> r.tc, evicted |-> r.evicted]
     ELSE [threw |-> FALSE,
           tc |-> IF contains(r.tc, track) THEN r.tc
                  ELSE [r.tc EXCEPT !.cache = Append(@, track)],
           evicted |-> r.evicted]

\* result: threw = TrackCacheOutOfMemory was thrown
addTrackAsLoading(tc, trackGuidsInChannels, track) ==
  LET r == _checkAndMakeSpace(tc, trackGuidsInChannels, track)
  IN IF ~r.ok
     THEN [threw |-> TRUE, tc |-> r.tc, evicted |-> r.evicted]
     ELSE LET tc1 == setStatusLoading(r.tc, track)
          IN [threw |-> FALSE,
              tc |-> IF contains(tc1, track) THEN tc1
                     ELSE [tc1 EXCEPT !.cache = Append(@, track)],
              evicted |-> r.evicted]

\* result: found = the Boolean returned
_destroy(tc, trackGuid) ==
  IF contains(tc, trackGuid)
  THEN [found |-> TRUE,
        tc |-> [tc EXCEPT !.cache = SelectSeq(@, LAMBDA g : g # trackGuid)]]
  ELSE [found |-> FALSE, tc |-> tc]

(***************************************************************************)
(* Audio buffer manager.                                                    *)
(***************************************************************************)
\* the states of the promise of one pLoadSingleTrack call; "fetching" and
\* "decoding" are the pending promise waiting for s3.getObject and for
\* decodeAudioData
Pending == {"fetching", "decoding"}
Settled == {"resolved", "rejAlreadyLoading", "rejOutOfMemory",
            "rejFetch", "rejDecode"}

\* pLoadSingleTrack without the test of cachedTrack.isStatusLoading()
pLoadSingleTrackNoLoadingTest(tc, trackGuidsInChannels, track) ==
  LET cachedTrack == getTrack(tc, track)
  IN IF cachedTrack # NoTrack /\ isStatusLoadSuccess(tc, cachedTrack)
     THEN [tc |-> tc, promise |-> "resolved", evicted |-> NoTrack]
     ELSE LET a == addTrackAsLoading(tc, trackGuidsInChannels, track)
          IN IF a.threw
             THEN [tc |-> a.tc, promise |-> "rejOutOfMemory", evicted |-> a.evicted]
             ELSE [tc |-> a.tc, promise |-> "fetching", evicted |-> a.evicted]

\* pLoadSingleTrack going on to s3.getObject after addTrackAsLoading threw
pLoadSingleTrackNoReturn(tc, trackGuidsInChannels, track) ==
  LET cachedTrack == getTrack(tc, track)
  IN IF cachedTrack # NoTrack /\ isStatusLoading(tc, cachedTrack)
     THEN [tc |-> tc, promise |-> "rejAlreadyLoading", evicted |-> NoTrack]
     ELSE IF cachedTrack # NoTrack /\ isStatusLoadSuccess(tc, cachedTrack)
     THEN [tc |-> tc, promise |-> "resolved", evicted |-> NoTrack]
     ELSE LET a == addTrackAsLoading(tc, trackGuidsInChannels, track)
          IN [tc |-> a.tc, promise |-> "fetching", evicted |-> a.evicted]

\* the synchronous part of pLoadSingleTrack (the promise executor)
pLoadSingleTrack(tc, trackGuidsInChannels, track) ==
  LET cachedTrack == getTrack(tc, track)
  IN IF cachedTrack # NoTrack /\ isStatusLoading(tc, cachedTrack)
     THEN [tc |-> tc, promise |-> "rejAlreadyLoading", evicted |-> NoTrack]
     ELSE IF cachedTrack # NoTrack /\ isStatusLoadSuccess(tc, cachedTrack)
     THEN [tc |-> tc, promise |-> "resolved", evicted |-> NoTrack]
     ELSE LET a == addTrackAsLoading(tc, trackGuidsInChannels, track)
          IN IF a.threw
             THEN [tc |-> a.tc, promise |-> "rejOutOfMemory", evicted |-> a.evicted]
             ELSE [tc |-> a.tc, promise |-> "fetching", evicted |-> a.evicted]

shouldTryLoad(tc, trackGuid) ==
  IF contains(tc, trackGuid)
  THEN ~(isStatusLoading(tc, trackGuid) \/ isStatusLoadSuccess(tc, trackGuid))
  ELSE TRUE

\* no pLoadTracks call was made
NoBatch == [kind |-> "none"]

\* the states of a rejected pLoadSingleTrack promise
Rejected == Settled \ {"resolved"}

\* the pLoadSingleTrack call made for track when the calls made so far are
\* callsMade, and p is what its executor did
CallMade(callsMade, track, p) ==
  [track |-> track, promise |-> p.promise,
   concurrent |-> \E i \in 1..Len(callsMade) :
                    callsMade[i].track = track /\ callsMade[i].promise \in Pending]

RECURSIVE pLoadTracksLoopAll(_, _, _)
RECURSIVE pLoadTracksLoop(_, _, _)

\* a loop that calls pLoadSingleTrack for the tracks that are loading too
pLoadTracksLoopAll(st, trackGuidsInChannels, tracksToLoad) ==
  IF tracksToLoad = <<>> THEN st
  ELSE LET track == Head(tracksToLoad)
           Pushed(p) ==
             [st EXCEPT !.tc = p.tc,
                        !.calls = Append(@, CallMade(st.calls, track, p)),
                        !.trackLoadPromises = Append(@, Len(st.calls) + 1)]
       IN pLoadTracksLoopAll(
            Pushed(pLoadSingleTrack(st.tc, trackGuidsInChannels, track)),
            trackGuidsInChannels, Tail(tracksToLoad))

\* the for loop of pLoadTracks.  st.tc is the cache, st.calls the
\* pLoadSingleTrack calls made so far, st.trackLoadPromises the positions in
\* st.calls of the promises pushed, st.loadingTracks the tracks pushed
pLoadTracksLoop(st, trackGuidsInChannels, tracksToLoad) ==
  IF tracksToLoad = <<>> THEN st
  ELSE LET track == Head(tracksToLoad)
           Pushed(p) ==
             [st EXCEPT !.tc = p.tc,
                        !.calls = Append(@, CallMade(st.calls, track, p)),
                        !.trackLoadPromises = Append(@, Len(st.calls) + 1)]
       IN IF ~isStatusLoading(st.tc, track)
          THEN pLoadTracksLoop(
                 Pushed(pLoadSingleTrack(st.tc, trackGuidsInChannels, track)),
                 trackGuidsInChannels, Tail(tracksToLoad))
          ELSE pLoadTracksLoop([st EXCEPT !.loadingTracks = Append(@, track)],
                               trackGuidsInChannels, Tail(tracksToLoad))

\* pLoadTracks up to the return of its promise; resolveLoadingTracks is
\* "undefined", "true" or "false".  With no promise pushed the executor
\* resolves at once, otherwise it waits for Promise.all
pLoadTracks(tc, trackGuidsInChannels, callsMade, tracksToLoad, resolveLoadingTracks) ==
  LET resolveLoading == IF resolveLoadingTracks = "undefined" THEN TRUE
                        ELSE resolveLoadingTracks = "true"
      Executor(st) ==
        [tc |-> st.tc, calls |-> st.calls,
         batch |-> [kind |-> "batch",
                    tracksToLoad |-> tracksToLoad,
                    resolveLoadingTracks |-> resolveLoading,
                    trackLoadPromises |-> st.trackLoadPromises,
                    loadingTracks |-> st.loadingTracks,
                    promise |-> IF st.trackLoadPromises = <<>>
                                THEN "resolved" ELSE "pending",
                    value |-> IF st.trackLoadPromises = <<>> /\ resolveLoading
                              THEN st.loadingTracks ELSE <<>>,
                    reason |-> "none"]]
  IN Executor(pLoadTracksLoop([tc |-> tc, calls |-> callsMade,
                               trackLoadPromises |-> <<>>, loadingTracks |-> <<>>],
                              trackGuidsInChannels, tracksToLoad))

\* the fulfilment callback given to Promise.all(trackLoadPromises).then
pLoadTracksResolved(b, callsMade) ==
  LET loadedTracksArr == [k \in 1..Len(b.trackLoadPromises) |->
                            callsMade[b.trackLoadPromises[k]].track]
  IN [b EXCEPT !.promise = "resolved",
               !.value = IF b.resolveLoadingTracks
                         THEN loadedTracksArr \o b.loadingTracks
                         ELSE loadedTracksArr]

\* the rejection callback given to Promise.all(trackLoadPromises).then
pLoadTracksRejected(b, reason) ==
  [b EXCEPT !.promise = "rejected", !.reason = reason]


(***************************************************************************)
(* Mixer channel: constants, nodes of the audio graph, track actions.       *)
(* Times are in milliseconds, playback rates and gains in hundredths.       *)
(***************************************************************************)
\* bounds of the channel model
\* last value of the engine clock
MaxTime == 2
\* longest actionsAddedCollection
MaxLog == 2
\* most calls that schedule param events (playbackRate values, pairs of
\* gain ramps) on the nodes of the channel
MaxParamCalls == 1
\* most discarded source nodes still playing
MaxOrphans == 1
\* number of pLoadSingleTrack calls for the hosted track
MaxHostedLoads == 1

\* var PITCH_BEND_FACTOR = 0.05;
PITCH_BEND_FACTOR == 5
\* AT_TIME_NOW: {value: -1, writable: false}
AT_TIME_NOW == -1
\* JavaScript null / undefined where a number is expected
Null == -1000
\* COMMON_CONST.INVALID_TIME_VAL, the "unset" time
INVALID_TIME_VAL == -2000
\* COMMON_CONST.INVALID_VAL
INVALID_VAL == -3000

\* the track the channel is constructed with, and another track's guid
HostedTrack == CHOOSE t \in Tracks : \A u \in Tracks : t <= u
OtherTrack == HostedTrack + 1
\* Track.getBpm() of the hosted track
TrackBpm == 2 * 60

NoChannel == [kind |-> "none"]
NoNode == [kind |-> "null"]

\* audioContext.createBufferSource(): nothing scheduled on it
NewSourceNode ==
  [kind |-> "source", starts |-> 0, startAt |-> Null, startOffset |-> Null,
   stops |-> 0, stopAt |-> Null, rates |-> <<>>, onended |-> FALSE]

\* audioContext.createGain(), gain.value = 1
NewGainNode == [kind |-> "gain", ramps |-> <<>>]

\* TimeUtil.isBadTime
isBadTime(t) == t = Null

\* NumberUtil.isPositive
isPositive(n) == n # Null /\ n > 0

\* JavaScript truthiness of what addActionMc returns
Truthy(ret) == ret = "true"

\* TrackAction.getActionTarget(): the node the action mutates
getActionTarget(action) ==
  IF action.type = "GAIN_FADE" THEN "GAIN" ELSE "SOURCE"

\* AudioParam.value of playbackRate at the current time: the value of the
\* latest event that is due, 1.0 if none
PlaybackRateValue(node, currentTimeMS) ==
  LET due == {i \in 1..Len(node.rates) : node.rates[i][2] <= currentTimeMS}
  IN IF due = {} THEN 100
     ELSE LET i == CHOOSE i \in due : \A j \in due :
                      \/ node.rates[j][2] < node.rates[i][2]
                      \/ (node.rates[j][2] = node.rates[i][2] /\ j <= i)
          IN node.rates[i][1]

(***************************************************************************)
(* Mixer channel: private functions.                                        *)
(***************************************************************************)
RECURSIVE _sourceNodeRecreate(_, _, _, _, _)
RECURSIVE ReAddActions(_, _, _, _, _)

_createGainNode(m) == [m EXCEPT !.gainNode = NewGainNode]

\* mc._playState = playState, in function by; trail keeps the values the
\* field takes during the call in progress, each with the function that
\* assigned it
SetPlayState(m, playState, by) ==
  IF m._playState = playState THEN m
  ELSE [m EXCEPT !._playState = playState,
                 !.trail = Append(@, <<playState, by>>)]

_resetPlayAttributes(m) ==
  [SetPlayState(m, "stopped", "_resetPlayAttributes") EXCEPT
            !.startScheduledTimeMS = INVALID_TIME_VAL,
            !.stopScheduledTimeMS = INVALID_TIME_VAL,
            !.startedAtOffsetMS = INVALID_TIME_VAL,
            !.stoppedAtOffsetMS = INVALID_TIME_VAL]

_ensureSourceNodePresent(m, currentTimeMS, trackBuffer) ==
  _sourceNodeRecreate(m, currentTimeMS, trackBuffer, FALSE, FALSE)

_filterAtTimeNow(currentTimeMS, timeMS) ==
  IF timeMS = AT_TIME_NOW THEN currentTimeMS ELSE timeMS

\* the second test reads mc._playStates, a property that is never set
_getPlayState(m, currentTimeMS) ==
  IF m._playState = "play-scheduled"
  THEN IF currentTimeMS >= m.startScheduledTimeMS
       THEN SetPlayState(m, "playing", "_getPlayState") ELSE m
  ELSE IF m._playStates = "stop-scheduled"
  THEN IF currentTimeMS >= m.stopScheduledTimeMS
       THEN SetPlayState(m, "stopped", "_getPlayState") ELSE m
  ELSE m

\* an offset query that leaves out the time played
getTrackCurrentOffsetMSNoElapsed(m, currentTimeMS) ==
  LET m1 == _getPlayState(m, currentTimeMS)
  IN [mc |-> m1,
      val |-> IF m1._playState \in {"stopped", "play-scheduled"}
              THEN IF m1.stoppedAtOffsetMS = INVALID_TIME_VAL
                   THEN INVALID_VAL ELSE m1.stoppedAtOffsetMS
              ELSE m1.startedAtOffsetMS]

\* result: mc = the channel afterwards, val = the number returned
getTrackCurrentOffsetMS(m, currentTimeMS) ==
  LET m1 == _getPlayState(m, currentTimeMS)
  IN [mc |-> m1,
      val |-> IF m1._playState \in {"stopped", "play-scheduled"}
              THEN IF m1.stoppedAtOffsetMS = INVALID_TIME_VAL
                   THEN INVALID_VAL ELSE m1.stoppedAtOffsetMS
              ELSE m1.startedAtOffsetMS
                   + (currentTimeMS - m1.startScheduledTimeMS)]

\* a helper that records the channel as playing at once
_actionPlayHelperSetsPlaying(m, atTimeMS, offsetMS) ==
  LET n == m.sourceNode
      n1 == IF n.starts = 0
            THEN [n EXCEPT !.starts = 1, !.startAt = atTimeMS,
                           !.startOffset = offsetMS]
            ELSE [n EXCEPT !.starts = 2]
  IN [SetPlayState(m, "playing", "_actionPlayHelper") EXCEPT
               !.sourceNode = [n1 EXCEPT !.onended = TRUE],
               !.startScheduledTimeMS = atTimeMS,
               !.startedAtOffsetMS = offsetMS]

\* sourceNode.start() throws a DOMException on a node that was started, and
\* the helper catches it
_actionPlayHelper(m, atTimeMS, offsetMS) ==
  LET n == m.sourceNode
      n1 == IF n.starts = 0
            THEN [n EXCEPT !.starts = 1, !.startAt = atTimeMS,
                           !.startOffset = offsetMS]
            ELSE [n EXCEPT !.starts = 2]
  IN [SetPlayState(m, "play-scheduled", "_actionPlayHelper") EXCEPT
               !.sourceNode = [n1 EXCEPT !.onended = TRUE],
               !.startScheduledTimeMS = atTimeMS,
               !.startedAtOffsetMS = offsetMS]

\* _actionPlay with the STOPPED case left unimplemented like the others
_actionPlayNotFromStopped(m, currentTimeMS, atTimeIn, offsetIn) ==
  IF isBadTime(atTimeIn) THEN [mc |-> m, ret |-> "false"]
  ELSE [mc |-> _getPlayState(m, currentTimeMS), ret |-> "false"]

\* _actionPlay scheduling the start in every play state
_actionPlayInAnyState(m, currentTimeMS, atTimeIn, offsetIn) ==
  IF isBadTime(atTimeIn) THEN [mc |-> m, ret |-> "false"]
  ELSE [mc |-> _actionPlayHelper(_getPlayState(m, currentTimeMS),
                                 _filterAtTimeNow(currentTimeMS, atTimeIn),
                                 IF isBadTime(offsetIn) THEN 0 ELSE offsetIn),
        ret |-> "true"]

_actionPlay(m, currentTimeMS, atTimeIn, offsetIn) ==
  IF isBadTime(atTimeIn) THEN [mc |-> m, ret |-> "false"]
  ELSE LET offsetMS == IF isBadTime(offsetIn) THEN 0 ELSE offsetIn
           atTimeMS == _filterAtTimeNow(currentTimeMS, atTimeIn)
           m1 == _getPlayState(m, currentTimeMS)
       IN IF m1._playState = "stopped"
          THEN [mc |-> _actionPlayHelper(m1, atTimeMS, offsetMS), ret |-> "true"]
          ELSE [mc |-> m1, ret |-> "false"]

_actionPause(m, atTimeMS) == [mc |-> m, ret |-> "false"]

\* _actionPitch leaving the isBent flag as it is
_actionPitchKeepsBent(m, currentTimeMS, atTimeIn, pitchValue) ==
  IF isBadTime(atTimeIn) THEN [mc |-> m, ret |-> "false"]
  ELSE LET atTimeMS == _filterAtTimeNow(currentTimeMS, atTimeIn)
       IN [mc |-> [m EXCEPT !.sourceNode.rates = Append(@, <<pitchValue, atTimeMS>>)],
           ret |-> "true"]

_actionPitch(m, currentTimeMS, atTimeIn, pitchValue) ==
  IF isBadTime(atTimeIn) THEN [mc |-> m, ret |-> "false"]
  ELSE LET atTimeMS == _filterAtTimeNow(currentTimeMS, atTimeIn)
       IN [mc |-> [m EXCEPT !.sourceNode.rates = Append(@, <<pitchValue, atTimeMS>>),
                            !.isBent = FALSE],
           ret |-> "true"]

\* a helper that remembers the offset of the moment of the call
_actionStopHelperOffsetNow(m, currentTimeMS, atTimeMS) ==
  LET n == m.sourceNode
      m1 == [SetPlayState(m, "stop-scheduled", "_actionStopHelper") EXCEPT
                      !.sourceNode =
                        [n EXCEPT !.stops = IF n.stops = 0 THEN 1 ELSE 2,
                                  !.stopAt = atTimeMS],
                      !.stopScheduledTimeMS = atTimeMS]
      o == getTrackCurrentOffsetMS(m1, currentTimeMS)
  IN [o.mc EXCEPT !.stoppedAtOffsetMS = o.val]

_actionStopHelper(m, currentTimeMS, atTimeMS) ==
  LET n == m.sourceNode
      m1 == [SetPlayState(m, "stop-scheduled", "_actionStopHelper") EXCEPT
                      !.sourceNode =
                        [n EXCEPT !.stops = IF n.stops = 0 THEN 1 ELSE 2,
                                  !.stopAt = atTimeMS],
                      !.stopScheduledTimeMS = atTimeMS]
      o == getTrackCurrentOffsetMS(m1, currentTimeMS)
  IN [o.mc EXCEPT !.stoppedAtOffsetMS = o.val + atTimeMS - currentTimeMS]

\* _actionStop scheduling the stop in every play state
_actionStopInAnyState(m, currentTimeMS, atTimeIn) ==
  IF isBadTime(atTimeIn) THEN [mc |-> m, ret |-> "false"]
  ELSE [mc |-> _actionStopHelper(_getPlayState(m, currentTimeMS), currentTimeMS,
                                 _filterAtTimeNow(currentTimeMS, atTimeIn)),
        ret |-> "true"]

_actionStop(m, currentTimeMS, atTimeIn) ==
  IF isBadTime(atTimeIn) THEN [mc |-> m, ret |-> "false"]
  ELSE LET atTimeMS == _filterAtTimeNow(currentTimeMS, atTimeIn)
           m1 == _getPlayState(m, currentTimeMS)
       IN IF m1._playState = "playing"
          THEN [mc |-> _actionStopHelper(m1, currentTimeMS, atTimeMS),
                ret |-> "true"]
          ELSE [mc |-> m1, ret |-> "false"]

\* the function has no return statement: it returns undefined
_actionGainFade(m, atTimeMS, endGainVal, fadeNumBeats, trackBpm) ==
  IF ~isPositive(trackBpm) THEN [mc |-> m, ret |-> "threw"]
  ELSE LET fadeTimeMS == (fadeNumBeats * 60 * 1000) \div trackBpm
           initialGainVal == 100 - endGainVal
       IN [mc |-> [m EXCEPT !.gainNode.ramps =
                     @ \o << <<initialGainVal, atTimeMS>>,
                             <<endGainVal, atTimeMS + fadeTimeMS>> >>],
           ret |-> "undefined"]

(***************************************************************************)
(* Mixer channel: public methods.                                           *)
(***************************************************************************)
\* TrackActionFactory.copyFromTrackAction followed by
\* actionsAddedCollection.addActionWithTimeMSAbs
addActionWithTimeMSAbs(actions, action, actionTimeMSAbs) ==
  Append(actions, [action EXCEPT !.timeMSAbs = actionTimeMSAbs])

\* a guid test that lets every action through
SameTrackAlways(m, action) == TRUE

\* this.track.getGuid() === action.getActionTrackGuid()
SameTrack(m, action) == m.track = action.trackGuid

\* result: mc = the channel afterwards, ret = "true", "false", "undefined"
\* (what was returned) or "threw"
\* The statements after _ensureSourceNodePresent (e = its outcome) and after
\* the switch (r = its outcome) are written as operators of that outcome.
addActionMc(m, currentTimeMS, trackBuffer, action, baseIn, mixSetIn, minIn) ==
  LET baseTimeOffsetMS == IF isBadTime(baseIn) THEN 0 ELSE baseIn
      mixSetOffsetTimeMS == IF isBadTime(mixSetIn) THEN 0 ELSE mixSetIn
      minTimeMSAbs == IF isBadTime(minIn) THEN 0 ELSE minIn
      actionTimeMSAbs ==
        _filterAtTimeNow(currentTimeMS, action.timeMSAbs)
        + baseTimeOffsetMS - mixSetOffsetTimeMS
      AfterSwitch(r) ==
        IF Truthy(r.ret) /\ getActionTarget(action) = "SOURCE"
        THEN [mc |-> [r.mc EXCEPT !.actionsAddedCollection =
                        addActionWithTimeMSAbs(@, action, actionTimeMSAbs)],
              ret |-> r.ret]
        ELSE r
      Switch(m0) ==
        CASE action.type = "PLAY" ->
               _actionPlay(m0, currentTimeMS, actionTimeMSAbs, action.offsetMS)
          [] action.type = "STOP" ->
               _actionStop(m0, currentTimeMS, actionTimeMSAbs)
          [] action.type = "PAUSE" ->
               _actionPause(m0, actionTimeMSAbs)
          [] action.type = "PITCH" ->
               _actionPitch(m0, currentTimeMS, actionTimeMSAbs,
                            action.pitchValue)
          [] action.type = "GAIN_FADE" ->
               _actionGainFade(m0, actionTimeMSAbs, action.endVal,
                               action.fadeNumBeats, TrackBpm)
          [] OTHER -> [mc |-> m0, ret |-> "false"]
      AfterEnsure(e) ==
        IF ~e.ret THEN [mc |-> e.mc, ret |-> "threw"]
        ELSE IF SameTrack(e.mc, action)
        THEN IF _filterAtTimeNow(currentTimeMS, action.timeMSAbs) < minTimeMSAbs
             THEN [mc |-> e.mc, ret |-> "false"]
             ELSE AfterSwitch(Switch(e.mc))
        ELSE [mc |-> e.mc, ret |-> "false"]
  IN AfterEnsure(_ensureSourceNodePresent(m, currentTimeMS, trackBuffer))

\* the loop of _sourceNodeRecreate that re-inserts the actions still in the
\* future
ReAddActions(m, currentTimeMS, trackBuffer, tmpActions, minTimeMSAbs) ==
  IF tmpActions = <<>> THEN m
  ELSE LET action == Head(tmpActions)
           m1 == IF action.timeMSAbs >= minTimeMSAbs
                 THEN addActionMc(m, currentTimeMS, trackBuffer, action,
                                  Null, Null, minTimeMSAbs).mc
                 ELSE m
       IN ReAddActions(m1, currentTimeMS, trackBuffer, Tail(tmpActions),
                       minTimeMSAbs)

\* result: mc = the channel afterwards, ret = the Boolean returned
_sourceNodeRecreate(m, currentTimeMS, trackBuffer, deleteOldNode, addBackIn) ==
  LET addBackOldActions == IF ~deleteOldNode THEN FALSE ELSE addBackIn
  IN IF m.gainNode = NoNode THEN [mc |-> m, ret |-> FALSE]
     ELSE IF m.sourceNode # NoNode /\ ~deleteOldNode THEN [mc |-> m, ret |-> TRUE]
     ELSE IF trackBuffer
     THEN LET m1 == [m EXCEPT !.sourceNode = NewSourceNode]
          IN IF addBackOldActions
             THEN [mc |-> ReAddActions(
                            [m1 EXCEPT !.actionsAddedCollection = <<>>],
                            currentTimeMS, trackBuffer,
                            m1.actionsAddedCollection, currentTimeMS),
                   ret |-> TRUE]
             ELSE [mc |-> [m1 EXCEPT !.actionsAddedCollection = <<>>],
                   ret |-> TRUE]
     ELSE [mc |-> [m EXCEPT !.sourceNode = NoNode], ret |-> FALSE]

\* new MixerChannel(track, audioContext)
MixerChannel(track, currentTimeMS, trackBuffer) ==
  LET m0 == [kind |-> "channel", track |-> track,
             gainNode |-> NewGainNode, sourceNode |-> NoNode,
             preBendPitchValue |-> Null, isBent |-> FALSE,
             actionsAddedCollection |-> <<>>,
             _playState |-> "stopped", _playStates |-> "undefined",
             trail |-> <<>>,
             startScheduledTimeMS |-> INVALID_TIME_VAL,
             stopScheduledTimeMS |-> INVALID_TIME_VAL,
             startedAtOffsetMS |-> INVALID_TIME_VAL,
             stoppedAtOffsetMS |-> INVALID_TIME_VAL]
      m1 == _sourceNodeRecreate(_createGainNode(m0), currentTimeMS, trackBuffer,
                                FALSE, FALSE).mc
  IN _resetPlayAttributes(
       [m1 EXCEPT !.preBendPitchValue = Null, !.isBent = FALSE,
                  !.actionsAddedCollection = <<>>])

RECURSIVE addActions(_, _, _, _, _, _, _)
\* result: mc = the channel afterwards, ret = the value of allAdded returned,
\* or "threw"; allAdded && f() does not call f once allAdded is falsy
addActions(m, currentTimeMS, trackBuffer, actionList, baseIn, mixSetIn, minIn) ==
  IF actionList = <<>> THEN [mc |-> m, ret |-> "true"]
  ELSE LET AfterAdd(r) ==
             IF r.ret = "threw" THEN r
             ELSE IF ~Truthy(r.ret) THEN r
             ELSE addActions(r.mc, currentTimeMS, trackBuffer, Tail(actionList),
                             baseIn, mixSetIn, minIn)
       IN AfterAdd(addActionMc(m, currentTimeMS, trackBuffer, Head(actionList),
                               baseIn, mixSetIn, minIn))

\* clearActions resetting the source node in every play state
clearActionsAlwaysResets(m, currentTimeMS, trackBuffer, forceSourceNodeReset, forceGainNodeReset) ==
  LET m1 == [m EXCEPT !.actionsAddedCollection = <<>>]
  IN IF forceGainNodeReset /\ m1.sourceNode = NoNode
     THEN [mc |-> _createGainNode(m1), ret |-> "threw"]
     ELSE
     LET m2 == IF forceGainNodeReset THEN _createGainNode(m1) ELSE m1
         m3 == _getPlayState(m2, currentTimeMS)
     IN [mc |-> _resetPlayAttributes(
                  _sourceNodeRecreate(SetPlayState(m3, "stopped", "clearActions"),
                                      currentTimeMS, trackBuffer,
                                      TRUE, FALSE).mc),
         ret |-> "undefined"]

\* result: ret = "undefined" (nothing is returned) or "threw" (the TypeError
\* of this.sourceNode.connect on a null sourceNode)
clearActions(m, currentTimeMS, trackBuffer, forceSourceNodeReset, forceGainNodeReset) ==
  LET m1 == [m EXCEPT !.actionsAddedCollection = <<>>]
  IN IF forceGainNodeReset /\ m1.sourceNode = NoNode
     THEN [mc |-> _createGainNode(m1), ret |-> "threw"]
     ELSE
     LET m2 == IF forceGainNodeReset THEN _createGainNode(m1) ELSE m1
         m3 == _getPlayState(m2, currentTimeMS)
     IN IF m3._playState \in {"stopped", "play-scheduled"} \/ forceSourceNodeReset
        THEN [mc |-> _resetPlayAttributes(
                       _sourceNodeRecreate(SetPlayState(m3, "stopped", "clearActions"),
                                           currentTimeMS, trackBuffer,
                                           TRUE, FALSE).mc),
              ret |-> "undefined"]
        ELSE [mc |-> m3, ret |-> "undefined"]

\* pitchBend without the test of isBent
pitchBendWhileBent(m, currentTimeMS, trackBuffer, direction) ==
  LET AfterEnsure(e) ==
        IF ~e.ret THEN [mc |-> e.mc, ret |-> "threw"]
        ELSE LET currentPitch == PlaybackRateValue(e.mc.sourceNode, currentTimeMS)
                 newPitch == IF direction = "pb_down"
                             THEN currentPitch - PITCH_BEND_FACTOR
                             ELSE currentPitch + PITCH_BEND_FACTOR
             IN [mc |-> [e.mc EXCEPT !.preBendPitchValue = currentPitch,
                           !.sourceNode.rates = Append(@, <<newPitch, currentTimeMS>>),
                           !.isBent = TRUE],
                 ret |-> "true"]
  IN AfterEnsure(_ensureSourceNodePresent(m, currentTimeMS, trackBuffer))

pitchBend(m, currentTimeMS, trackBuffer, direction) ==
  LET AfterEnsure(e) ==
        IF ~e.ret THEN [mc |-> e.mc, ret |-> "threw"]
        ELSE IF e.mc.isBent THEN [mc |-> e.mc, ret |-> "false"]
        ELSE LET currentPitch == PlaybackRateValue(e.mc.sourceNode, currentTimeMS)
                 newPitch == IF direction = "pb_down"
                             THEN currentPitch - PITCH_BEND_FACTOR
                             ELSE currentPitch + PITCH_BEND_FACTOR
             IN [mc |-> [e.mc EXCEPT !.preBendPitchValue = currentPitch,
                           !.sourceNode.rates = Append(@, <<newPitch, currentTimeMS>>),
                           !.isBent = TRUE],
                 ret |-> "true"]
  IN AfterEnsure(_ensureSourceNodePresent(m, currentTimeMS, trackBuffer))

pitchBendRestore(m, currentTimeMS, trackBuffer) ==
  LET AfterEnsure(e) ==
        IF ~e.ret THEN [mc |-> e.mc, ret |-> "threw"]
        ELSE IF ~e.mc.isBent \/ e.mc.preBendPitchValue = Null
        THEN [mc |-> e.mc, ret |-> "undefined"]
        ELSE [mc |-> [e.mc EXCEPT
                        !.sourceNode.rates =
                           Append(@, <<e.mc.preBendPitchValue, currentTimeMS>>),
                        !.isBent = FALSE],
              ret |-> "undefined"]
  IN AfterEnsure(_ensureSourceNodePresent(m, currentTimeMS, trackBuffer))

\* an onended callback that adds the old actions back
_processPlaybackEndedReplays(m, currentTimeMS, trackBuffer) ==
  _sourceNodeRecreate(SetPlayState(m, "stopped", "_processPlaybackEnded"),
                      currentTimeMS, trackBuffer, TRUE, TRUE).mc

\* the onended callback registered by _actionPlayHelper
_processPlaybackEnded(m, currentTimeMS, trackBuffer) ==
  _sourceNodeRecreate(SetPlayState(m, "stopped", "_processPlaybackEnded"),
                      currentTimeMS, trackBuffer, TRUE, FALSE).mc

(***************************************************************************)
(* The callers of the cache and of the loader.  Track guids are opaque: a   *)
(* caller uses a track that is already referenced somewhere, or the first   *)
(* one that is not.                                                         *)
(***************************************************************************)
Referenced(t) ==
  \/ contains(TC, t)
  \/ loadStatus[t] # "NOT_LOADED"
  \/ t \in pinned
  \/ \E i \in 1..Len(calls) : calls[i].track = t

CallerTracks ==
  {t \in Tracks : Referenced(t) \/ \A u \in Tracks : u < t => Referenced(u)}

\* a pLoadSingleTrack call for track t has its promise pending
InFlight(t) ==
  \E i \in 1..Len(calls) : calls[i].track = t /\ calls[i].promise \in Pending

SetTC(tc) ==
  /\ _cache' = tc.cache
  /\ loadStatus' = tc.status
  /\ audioBuffer' = tc.buffer

\* the last step made no addTrackAsLoading call
NoAdd == [threw |-> FALSE, evicted |-> NoTrack]

(***************************************************************************)
(* Actions of the track cache and the audio buffer manager.                 *)
(***************************************************************************)
\* TrackCache.getInstance().addTrackAsLoading(track)
AddTrackAsLoadingOn(t) ==
  LET a == addTrackAsLoading(TC, pinned, t)
  IN /\ SetTC(a.tc)
     /\ lastAdd' = [threw |-> a.threw, evicted |-> a.evicted]
     /\ UNCHANGED <<pinned, calls, removes, channelVars, batch>>

AddTrackAsLoading == \E t \in CallerTracks : AddTrackAsLoadingOn(t)

\* TrackCache.getInstance()._destroy(trackGuid)
Destroy ==
  \E t \in CallerTracks :
    /\ removes < MaxRemoves
    /\ removes' = removes + 1
    /\ SetTC(_destroy(TC, t).tc)
    /\ lastAdd' = NoAdd
    /\ UNCHANGED <<pinned, calls, channelVars, batch>>

\* AudioBufferManager.getInstance().pLoadSingleTrack(track), up to the
\* s3.getObject request
LoadSingleTrackOn(t) ==
  LET p == pLoadSingleTrack(TC, pinned, t)
  IN /\ Len(calls) < MaxCalls
     /\ SetTC(p.tc)
     /\ calls' = Append(calls, [track |-> t, promise |-> p.promise,
                                concurrent |-> InFlight(t)])
     /\ lastAdd' = IF p.promise \in {"fetching", "rejOutOfMemory"}
                   THEN [threw |-> p.promise = "rejOutOfMemory",
                         evicted |-> p.evicted]
                   ELSE NoAdd
     /\ UNCHANGED <<pinned, removes, mc, now, orphans, thrown, batch>>

LoadSingleTrack == \E t \in CallerTracks : LoadSingleTrackOn(t)

\* an s3.getObject error callback that rejects and leaves the status
FetchErrorKeepsStatus ==
  \E i \in 1..Len(calls) :
    /\ calls[i].promise = "fetching"
    /\ calls' = [calls EXCEPT ![i].promise = "rejFetch"]
    /\ lastAdd' = NoAdd
    /\ UNCHANGED <<_cache, loadStatus, audioBuffer, pinned, removes, mc, now, orphans,
                 thrown, batch>>

\* the s3.getObject callback with error != null
FetchError ==
  \E i \in 1..Len(calls) :
    /\ calls[i].promise = "fetching"
    /\ SetTC(setStatusLoadFailed(TC, calls[i].track))
    /\ calls' = [calls EXCEPT ![i].promise = "rejFetch"]
    /\ lastAdd' = NoAdd
    /\ UNCHANGED <<pinned, removes, mc, now, orphans, thrown, batch>>

\* the s3.getObject callback with data: decodeAudioData is started
FetchDone ==
  \E i \in 1..Len(calls) :
    /\ calls[i].promise = "fetching"
    /\ calls' = [calls EXCEPT ![i].promise = "decoding"]
    /\ lastAdd' = NoAdd
    /\ UNCHANGED <<_cache, loadStatus, audioBuffer, pinned, removes, mc, now, orphans,
                 thrown, batch>>

\* the success callback of decodeAudioData
DecodeSuccess ==
  \E i \in 1..Len(calls) :
    /\ calls[i].promise = "decoding"
    /\ SetTC(setAudioBuffer(TC, calls[i].track))
    /\ calls' = [calls EXCEPT ![i].promise = "resolved"]
    /\ lastAdd' = NoAdd
    /\ UNCHANGED <<pinned, removes, mc, now, orphans, thrown, batch>>

\* an error callback of decodeAudioData that rejects and leaves the status
DecodeErrorKeepsStatus ==
  \E i \in 1..Len(calls) :
    /\ calls[i].promise = "decoding"
    /\ calls' = [calls EXCEPT ![i].promise = "rejDecode"]
    /\ lastAdd' = NoAdd
    /\ UNCHANGED <<_cache, loadStatus, audioBuffer, pinned, removes, mc, now, orphans,
                 thrown, batch>>

\* the error callback of decodeAudioData
DecodeError ==
  \E i \in 1..Len(calls) :
    /\ calls[i].promise = "decoding"
    /\ SetTC(setStatusLoadFailed(TC, calls[i].track))
    /\ calls' = [calls EXCEPT ![i].promise = "rejDecode"]
    /\ lastAdd' = NoAdd
    /\ UNCHANGED <<pinned, removes, mc, now, orphans, thrown, batch>>

\* the tracks and the lists pLoadTracks is called with
BatchLists ==
  UNION {[1..n -> 1..MaxBatchTracks] : n \in 0..MaxBatchLen}

\* AudioBufferManager.getInstance().pLoadTracks(tracksToLoad,
\* resolveLoadingTracks), up to the return of its promise
LoadTracks ==
  \E tracksToLoad \in BatchLists,
     resolveLoadingTracks \in {"undefined", "true", "false"} :
    LET Outcome(r) ==
          /\ SetTC(r.tc)
          /\ calls' = r.calls
          /\ batch' = r.batch
    IN /\ batch = NoBatch
       /\ Outcome(pLoadTracks(TC, pinned, calls, tracksToLoad, resolveLoadingTracks))
       /\ lastAdd' = NoAdd
       /\ UNCHANGED <<pinned, removes, channelVars>>

\* Promise.all(trackLoadPromises) settles and runs one of the two callbacks:
\* it is fulfilled when every promise is, and rejected as soon as one is
LoadTracksSettle ==
  /\ batch # NoBatch
  /\ batch.promise = "pending"
  /\ \/ /\ \A k \in 1..Len(batch.trackLoadPromises) :
              calls[batch.trackLoadPromises[k]].promise = "resolved"
        /\ batch' = pLoadTracksResolved(batch, calls)
     \/ \E k \in 1..Len(batch.trackLoadPromises) :
          /\ calls[batch.trackLoadPromises[k]].promise \in Rejected
          /\ batch' = pLoadTracksRejected(batch,
                                          calls[batch.trackLoadPromises[k]].promise)
  /\ lastAdd' = NoAdd
  /\ UNCHANGED <<cacheVars, pinned, calls, removes, channelVars>>

\* a channel is created for a track of the cache ("@param track - assume
\* loaded"): AudioGraphStore.getTrackGuids() gains it
BindChannel ==
  \E t \in CallerTracks :
    /\ contains(TC, t)
    /\ t \notin pinned
    /\ Cardinality(pinned) < MaxPinned
    /\ pinned' = pinned \cup {t}
    /\ lastAdd' = NoAdd
    /\ UNCHANGED <<_cache, loadStatus, audioBuffer, calls, removes, channelVars, batch>>

\* a channel is removed: AudioGraphStore.getTrackGuids() loses its track
UnbindChannel ==
  \E t \in pinned :
    /\ pinned' = pinned \ {t}
    /\ lastAdd' = NoAdd
    /\ UNCHANGED <<_cache, loadStatus, audioBuffer, calls, removes, channelVars, batch>>

\* the state after the modules are loaded: an empty cache, no channel yet
Init ==
  /\ _cache = <<>>
  /\ loadStatus = [t \in Tracks |-> "NOT_LOADED"]
  /\ audioBuffer = [t \in Tracks |-> FALSE]
  /\ pinned = {}
  /\ calls = <<>>
  /\ removes = 0
  /\ lastAdd = NoAdd
  /\ mc = NoChannel
  /\ now = 0
  /\ orphans = <<>>
  /\ thrown = FALSE
  /\ batch = NoBatch

Next ==
  \/ AddTrackAsLoading
  \/ LoadSingleTrack
  \/ FetchError
  \/ FetchDone
  \/ DecodeSuccess
  \/ DecodeError
  \/ BindChannel
  \/ UnbindChannel

\* the cache and the loader with the channels binding and releasing tracks
Spec == Init /\ [][Next]_vars

\* the cache and the loader when every s3.getObject request and every
\* decodeAudioData call made ends up running one of its callbacks
SpecLoading ==
  /\ Init
  /\ [][Next]_vars
  /\ WF_vars(FetchError \/ FetchDone)
  /\ WF_vars(DecodeSuccess \/ DecodeError)

NextDestroy ==
  \/ AddTrackAsLoading
  \/ Destroy
  \/ LoadSingleTrack
  \/ FetchError
  \/ FetchDone
  \/ DecodeSuccess
  \/ DecodeError

\* the cache and the loader with entries being removed from the cache
SpecDestroy == Init /\ [][NextDestroy]_vars

\* the cache after addTrackAsLoading was called for k tracks that are not
\* among those of the lists
Preloaded(k) ==
  [cache |-> [i \in 1..k |-> MaxBatchTracks + i],
   status |-> [t \in Tracks |->
                 IF t \in (MaxBatchTracks + 1)..(MaxBatchTracks + k)
                 THEN "LOADING" ELSE "NOT_LOADED"],
   buffer |-> [t \in Tracks |-> FALSE]]

\* an empty cache, or one that has room for two more tracks
InitLoadTracks ==
  /\ \E k \in {0, MAX_TRACKS - 2} :
       /\ _cache = Preloaded(k).cache
       /\ loadStatus = Preloaded(k).status
       /\ audioBuffer = Preloaded(k).buffer
  /\ pinned = {}
  /\ calls = <<>>
  /\ removes = 0
  /\ lastAdd = NoAdd
  /\ mc = NoChannel
  /\ now = 0
  /\ orphans = <<>>
  /\ thrown = FALSE
  /\ batch = NoBatch

NextLoadTracks ==
  \/ LoadSingleTrack
  \/ LoadTracks
  \/ LoadTracksSettle
  \/ FetchError
  \/ FetchDone
  \/ DecodeSuccess
  \/ DecodeError

\* the cache and the loader with tracks loaded one at a time and as a list
SpecLoadTracks == InitLoadTracks /\ [][NextLoadTracks]_vars

(***************************************************************************)
(* Actions of the mixer channel: one channel, hosting HostedTrack, and the  *)
(* audio buffer manager loading that track.                                 *)
(***************************************************************************)
\* mc.track.getAudioBuffer(), as a truth value
TrackBuffer == audioBuffer[HostedTrack]

\* the channel when a call on it begins
Fresh(m) == [m EXCEPT !.trail = <<>>]

\* what the callers pass as action time, baseTimeOffsetMS,
\* mixSetOffsetTimeMS and minTimeMSAbs: the action now or at a later time
\* with the rest left out, then an action before the minimum time that the
\* base offset moves past it, and one after the minimum time that the mix
\* set offset moves before it
TimeArgs ==
  {<<AT_TIME_NOW, Null, Null, Null>>, <<1, Null, Null, Null>>,
   <<2, Null, Null, Null>>, <<1, 1, Null, 2>>, <<2, Null, 1, 2>>}

TrackAction(type, trackGuid, timeMSAbs, offsetMS, pitchValue, endVal, fadeNumBeats) ==
  [type |-> type, trackGuid |-> trackGuid, timeMSAbs |-> timeMSAbs,
   offsetMS |-> offsetMS, pitchValue |-> pitchValue, endVal |-> endVal,
   fadeNumBeats |-> fadeNumBeats]

\* the TrackAction objects of one track and one action time, one per type
ActionsOf(trackGuid, timeMSAbs) ==
  {TrackAction("PLAY", trackGuid, timeMSAbs, Null, Null, Null, Null),
   TrackAction("STOP", trackGuid, timeMSAbs, Null, Null, Null, Null),
   TrackAction("PAUSE", trackGuid, timeMSAbs, Null, Null, Null, Null),
   TrackAction("PITCH", trackGuid, timeMSAbs, Null, 110, Null, Null),
   TrackAction("GAIN_FADE", trackGuid, timeMSAbs, Null, Null, 0, 2)}

\* every action and time arguments the properties range over
AllSubmissions ==
  UNION {
    {<<a, args[2], args[3], args[4]>> :
       a \in ActionsOf(HostedTrack, args[1]) \cup ActionsOf(OtherTrack, args[1])
              \cup {TrackAction("PLAY", HostedTrack, args[1], 1, Null, Null, Null)}}
    : args \in TimeArgs}

\* what the callers submit in the runs: PLAY and STOP of the hosted track
\* with all the time arguments, the other actions and the actions of
\* another track now
Submissions ==
  {s \in AllSubmissions :
     \/ s[1].type \in {"PLAY", "STOP"} /\ s[1].trackGuid = HostedTrack
          /\ s[1].offsetMS = Null
     \/ s[1].timeMSAbs = AT_TIME_NOW /\ s[4] = Null}

\* the actions of the lists: for the hosted track, at AT_TIME_NOW
BatchActions == ActionsOf(HostedTrack, AT_TIME_NOW)

\* every list the properties range over
AllActionLists ==
  {<<>>} \cup {<<a>> : a \in BatchActions}
         \cup {<<a, b>> : a \in BatchActions, b \in BatchActions}

\* the lists submitted in the runs: PLAY, STOP and PAUSE actions
ActionLists ==
  {l \in AllActionLists :
     \A i \in 1..Len(l) : l[i].type \in {"PLAY", "STOP", "PAUSE"}}

\* the channel stays within the bounds of the model
Bounded(m) ==
  /\ Len(m.actionsAddedCollection) <= MaxLog
  /\ (Len(m.gainNode.ramps) \div 2)
       + (IF m.sourceNode = NoNode THEN 0 ELSE Len(m.sourceNode.rates))
     <= MaxParamCalls

\* the call replaced a source node on which start() was called: the node
\* keeps playing and keeps its onended callback
Discarded(old, new) ==
  /\ old.sourceNode # NoNode
  /\ old.sourceNode.starts >= 1
  /\ new.sourceNode # old.sourceNode
  /\ (new.sourceNode = NoNode \/ new.sourceNode.starts = 0)

ChannelStep(m) ==
  /\ Bounded(m)
  /\ mc' = m
  /\ lastAdd' = NoAdd
  /\ UNCHANGED <<_cache, loadStatus, audioBuffer, pinned, calls, removes, now, batch>>

\* mc.addActionMc(action, baseTimeOffsetMS, mixSetOffsetTimeMS, minTimeMSAbs)
AddAction ==
  \E s \in Submissions :
    LET Outcome(r) ==
          /\ ChannelStep(r.mc)
          /\ thrown' = (thrown \/ r.ret = "threw")
    IN /\ Outcome(addActionMc(Fresh(mc), now, TrackBuffer, s[1], s[2], s[3], s[4]))
       /\ UNCHANGED orphans

\* mc.addActions(actionList), the offsets and the minimum time left out
AddActions ==
  \E actionList \in ActionLists :
    /\ ChannelStep(addActions(Fresh(mc), now, TrackBuffer, actionList,
                              Null, Null, Null).mc)
    /\ UNCHANGED <<orphans, thrown>>

\* mc.clearActions(forceSourceNodeReset, forceGainNodeReset)
ClearActions ==
  \E forceSourceNodeReset \in BOOLEAN, forceGainNodeReset \in BOOLEAN :
    LET Outcome(m) ==
          /\ ChannelStep(m)
          /\ orphans' = IF Discarded(mc, m)
                        THEN Append(orphans, mc.sourceNode.startAt) ELSE orphans
          /\ Len(orphans') <= MaxOrphans
    IN /\ Outcome(clearActions(Fresh(mc), now, TrackBuffer, forceSourceNodeReset,
                               forceGainNodeReset).mc)
       /\ UNCHANGED thrown

\* mc.getTrackCurrentOffsetMS()
GetTrackCurrentOffsetMS ==
  /\ ChannelStep(getTrackCurrentOffsetMS(Fresh(mc), now).mc)
  /\ UNCHANGED <<orphans, thrown>>

\* mc.pitchBend(direction)
PitchBend ==
  \E direction \in {"pb_up", "pb_down"} :
    /\ ChannelStep(pitchBend(Fresh(mc), now, TrackBuffer, direction).mc)
    /\ UNCHANGED <<orphans, thrown>>

\* mc.pitchBendRestore()
PitchBendRestore ==
  /\ ChannelStep(pitchBendRestore(Fresh(mc), now, TrackBuffer).mc)
  /\ UNCHANGED <<orphans, thrown>>

\* the 'ended' event of the channel's source node: playback began and came
\* to the end of the buffer or to the stop time
PlaybackEndedCurrent ==
  /\ mc.sourceNode # NoNode
  /\ mc.sourceNode.onended
  /\ mc.sourceNode.starts >= 1
  /\ mc.sourceNode.startAt <= now
  /\ ChannelStep(_processPlaybackEnded(Fresh(mc), now, TrackBuffer))
  /\ UNCHANGED <<orphans, thrown>>

\* the 'ended' event of a discarded source node: its callback is bound to
\* the same channel
PlaybackEndedDiscarded ==
  \E i \in 1..Len(orphans) :
    LET rest == SubSeq(orphans, 1, i - 1) \o SubSeq(orphans, i + 1, Len(orphans))
        Outcome(m) ==
          /\ ChannelStep(m)
          /\ orphans' = IF Discarded(mc, m)
                        THEN Append(rest, mc.sourceNode.startAt) ELSE rest
          /\ Len(orphans') <= MaxOrphans
          /\ UNCHANGED thrown
    IN /\ orphans[i] <= now
       /\ Outcome(_processPlaybackEnded(Fresh(mc), now, TrackBuffer))

\* audioContext.currentTime advances
Tick ==
  /\ now < MaxTime
  /\ now' = now + 1
  /\ lastAdd' = NoAdd
  /\ UNCHANGED <<_cache, loadStatus, audioBuffer, pinned, calls, removes,
                 mc, orphans, thrown, batch>>

\* AudioBufferManager.getInstance().pLoadSingleTrack(mc.track)
LoadHostedTrack ==
  /\ Len(calls) < MaxHostedLoads
  /\ LoadSingleTrackOn(HostedTrack)

\* a channel was just constructed for a track that is not loaded yet; the
\* AudioGraphStore lists the track
InitChannel ==
  /\ _cache = <<>>
  /\ loadStatus = [t \in Tracks |-> "NOT_LOADED"]
  /\ audioBuffer = [t \in Tracks |-> FALSE]
  /\ pinned = {HostedTrack}
  /\ calls = <<>>
  /\ removes = 0
  /\ lastAdd = NoAdd
  /\ mc = MixerChannel(HostedTrack, 0, FALSE)
  /\ now = 0
  /\ orphans = <<>>
  /\ thrown = FALSE
  /\ batch = NoBatch

NextChannel ==
  \/ AddAction
  \/ AddActions
  \/ ClearActions
  \/ GetTrackCurrentOffsetMS
  \/ PitchBend
  \/ PitchBendRestore
  \/ PlaybackEndedCurrent
  \/ PlaybackEndedDiscarded
  \/ Tick
  \/ LoadHostedTrack
  \/ FetchError
  \/ FetchDone
  \/ DecodeSuccess
  \/ DecodeError

\* one mixer channel, the engine clock, and the loading of the hosted track
SpecChannel == InitChannel /\ [][NextChannel]_vars

(***************************************************************************)
(* Properties of the track cache and of the audio buffer manager.           *)
(***************************************************************************)
\* C1: in every reachable state the number of cached entries whose status is
\* LOADING or LOAD_SUCCESS is at most MAX_TRACKS.
C1_LoadedOrLoadingWithinMaxTracks ==
  _getNumTracksLoadedOrLoading(TC) <= MAX_TRACKS

\* the step is an admission of track t: addTrackAsLoading(t) called directly
\* or by pLoadSingleTrack(t)
AdmissionOf(t) ==
  \/ AddTrackAsLoadingOn(t)
  \/ (LoadSingleTrackOn(t) /\ calls'[Len(calls')].promise \in {"fetching", "rejOutOfMemory"})

\* C2: making space never sets to NOT_LOADED, nor takes the buffer of, a
\* track that is in the pinned set at the time of the call.
C2_PinnedNeverEvicted ==
  [][\A t \in Tracks :
       t \in pinned =>
         /\ (loadStatus[t] # "NOT_LOADED" => loadStatus'[t] # "NOT_LOADED")
         /\ (audioBuffer[t] => audioBuffer'[t])]_vars

\* C2 witness: the last admission deallocated a track that comes, in the
\* cache, after a loaded track bound to a channel.
C2_Witness ==
  /\ lastAdd.evicted # NoTrack
  /\ \E i, j \in 1..Len(_cache) :
       /\ i < j
       /\ _cache[j] = lastAdd.evicted
       /\ _cache[i] \in pinned
       /\ loadStatus[_cache[i]] = "LOAD_SUCCESS"

\* C3: a pLoadSingleTrack call made for a track while an earlier call for it
\* is pending is rejected as already loading (so the two never both
\* succeed), and when the pending call's decode succeeds the track is
\* LOAD_SUCCESS and holds the buffer.
C3_SingleFlight ==
  [][/\ \A j \in 1..Len(calls') :
          calls'[j].concurrent => calls'[j].promise = "rejAlreadyLoading"
     /\ \A i \in 1..Len(calls) :
          (calls[i].promise \in Pending /\ calls'[i].promise = "resolved") =>
            /\ loadStatus'[calls[i].track] = "LOAD_SUCCESS"
            /\ audioBuffer'[calls[i].track]]_vars

\* C3 witness: two calls for one unloaded track, the second made while the
\* first was pending; the first resolved, the second was rejected, and the
\* track is loaded.
C3_Witness ==
  /\ Len(calls) = 2
  /\ calls[1].track = calls[2].track
  /\ calls[2].concurrent
  /\ calls[1].promise = "resolved"
  /\ calls[2].promise = "rejAlreadyLoading"
  /\ loadStatus[calls[1].track] = "LOAD_SUCCESS"
  /\ audioBuffer[calls[1].track]

\* the cache cannot make room for track t
C9_NoRoomFor(t) ==
  /\ Cardinality({i \in 1..Len(_cache) :
                    loadStatus[_cache[i]] \in {"LOADING", "LOAD_SUCCESS"}}) >= MAX_TRACKS
  /\ ~(\E i \in 1..Len(_cache) :
         _cache[i] = t /\ loadStatus[t] \in {"LOADING", "LOAD_SUCCESS"})
  /\ \A i \in 1..Len(_cache) :
       loadStatus[_cache[i]] = "LOAD_SUCCESS" => _cache[i] \in pinned

\* C9: when the cache cannot make room for the track, the admission fails
\* with the out-of-memory condition and changes no entry, status or buffer.
C9_OutOfMemoryNoMutation ==
  [][\A t \in Tracks :
       (C9_NoRoomFor(t) /\ AdmissionOf(t)) =>
          (lastAdd'.threw /\ UNCHANGED cacheVars)]_vars

\* C9 witness: the last admission threw, on a full cache whose only loaded
\* entry is bound to a channel.
C9_Witness ==
  /\ lastAdd.threw
  /\ \E t \in Tracks : C9_NoRoomFor(t) /\ loadStatus[t] # "LOADING"
  /\ \E i \in 1..Len(_cache) : loadStatus[_cache[i]] = "LOAD_SUCCESS"

\* the cache is at capacity, track t is not cached as loading or loaded,
\* and position i is the first one holding a loaded track no channel uses
C10_FirstEvictable(t, i) ==
  /\ Cardinality({k \in 1..Len(_cache) :
                    loadStatus[_cache[k]] \in {"LOADING", "LOAD_SUCCESS"}}) >= MAX_TRACKS
  /\ ~(\E k \in 1..Len(_cache) :
         _cache[k] = t /\ loadStatus[t] \in {"LOADING", "LOAD_SUCCESS"})
  /\ i \in 1..Len(_cache)
  /\ loadStatus[_cache[i]] = "LOAD_SUCCESS" /\ _cache[i] \notin pinned
  /\ \A k \in 1..(i - 1) :
       ~(loadStatus[_cache[k]] = "LOAD_SUCCESS" /\ _cache[k] \notin pinned)

\* C10: at capacity, admitting a track that is not cached as loading or
\* loaded sets exactly the first loaded, unpinned entry to NOT_LOADED and
\* releases its buffer, keeps every other entry, and admits the track as
\* LOADING.
C10_EvictsFirstUnpinnedLoaded ==
  [][\A t \in Tracks : \A i \in 1..Len(_cache) :
       (C10_FirstEvictable(t, i) /\ AdmissionOf(t)) =>
          /\ ~lastAdd'.threw
          /\ lastAdd'.evicted = _cache[i]
          /\ loadStatus'[_cache[i]] = "NOT_LOADED"
          /\ ~audioBuffer'[_cache[i]]
          /\ loadStatus'[t] = "LOADING"
          /\ \E k \in 1..Len(_cache') : _cache'[k] = t
          /\ \A k \in 1..Len(_cache) : _cache'[k] = _cache[k]
          /\ \A u \in Tracks \ {t, _cache[i]} :
                loadStatus'[u] = loadStatus[u] /\ audioBuffer'[u] = audioBuffer[u]]_vars

\* C10 witness: the last admission deallocated a loaded track that had
\* another loaded, unpinned track after it in the cache, and the admitted
\* track is the LOADING entry at the end of the cache.
C10_Witness ==
  /\ lastAdd.evicted # NoTrack
  /\ ~lastAdd.threw
  /\ loadStatus[lastAdd.evicted] = "NOT_LOADED"
  /\ ~audioBuffer[lastAdd.evicted]
  /\ loadStatus[_cache[Len(_cache)]] = "LOADING"
  /\ \E i, j \in 1..Len(_cache) :
       /\ i < j
       /\ _cache[i] = lastAdd.evicted
       /\ loadStatus[_cache[j]] = "LOAD_SUCCESS"
       /\ _cache[j] \notin pinned

\* C11: a pending pLoadSingleTrack call settles in one of three ways: the
\* fetch fails, the promise is rejected with the fetch error and the track
\* is LOAD_FAILED; the decode fails, the promise is rejected with the decode
\* error and the track is LOAD_FAILED; or the decode succeeds, the promise is
\* resolved and the track is LOAD_SUCCESS and holds the buffer.  A settled
\* promise never changes, and a LOAD_FAILED track leaves that status only by
\* being marked LOADING again.
C11_LoadOutcome ==
  [][/\ \A i \in 1..Len(calls) :
          calls'[i].promise # calls[i].promise =>
            LET t == calls[i].track
            IN /\ calls[i].promise \in Pending
               /\ calls[i].promise = "fetching" =>
                    \/ /\ calls'[i].promise = "rejFetch"
                       /\ loadStatus'[t] = "LOAD_FAILED"
                    \/ /\ calls'[i].promise = "decoding"
                       /\ UNCHANGED cacheVars
               /\ calls[i].promise = "decoding" =>
                    \/ /\ calls'[i].promise = "rejDecode"
                       /\ loadStatus'[t] = "LOAD_FAILED"
                    \/ /\ calls'[i].promise = "resolved"
                       /\ loadStatus'[t] = "LOAD_SUCCESS"
                       /\ audioBuffer'[t]
     /\ \A t \in Tracks :
          loadStatus[t] = "LOAD_FAILED" =>
            loadStatus'[t] \in {"LOAD_FAILED", "LOADING"}]_vars

\* C11 witness: one call ended in a fetch error and another in a decode
\* error, and both tracks are LOAD_FAILED.
C11_Witness ==
  \E i, j \in 1..Len(calls) :
    /\ calls[i].promise = "rejFetch"
    /\ calls[j].promise = "rejDecode"
    /\ loadStatus[calls[i].track] = "LOAD_FAILED"
    /\ loadStatus[calls[j].track] = "LOAD_FAILED"

\* C12: pLoadSingleTrack for a track the cache cannot make room for is
\* rejected with the out-of-memory condition at once (the promise is never
\* pending, so no fetch and no decode is started) and changes no entry,
\* status or buffer.
C12_LoadOutOfMemory ==
  [][\A t \in Tracks :
       (C9_NoRoomFor(t) /\ LoadSingleTrackOn(t)) =>
          /\ calls'[Len(calls')].track = t
          /\ calls'[Len(calls')].promise = "rejOutOfMemory"
          /\ UNCHANGED cacheVars]_vars

\* C12 witness: the second call was rejected as out of memory for a track
\* that is in the cache as LOAD_FAILED, after the first call for it failed.
C12_Witness ==
  /\ Len(calls) = 2
  /\ calls[1].track = calls[2].track
  /\ calls[1].promise = "rejFetch"
  /\ calls[2].promise = "rejOutOfMemory"
  /\ lastAdd.threw
  /\ loadStatus[calls[2].track] = "LOAD_FAILED"
  /\ contains(TC, calls[2].track)

\* the tracks of the pLoadSingleTrack calls the step made, in call order
C13_Attempted ==
  [k \in 1..(Len(calls') - Len(calls)) |-> calls'[Len(calls) + k].track]

\* the promises of the list call, as tracks and states
C13_Promises(b, callsMade) ==
  [k \in 1..Len(b.trackLoadPromises) |-> callsMade[b.trackLoadPromises[k]]]

C29_OneLoadInFlight ==
  \A t \in Tracks :
    Cardinality({i \in 1..Len(calls) :
                   calls[i].track = t /\ calls[i].promise \in Pending}) <= 1

\* C30: in the state in which the promise of pLoadTracks becomes resolved,
\* every track pLoadSingleTrack was called for is LOAD_SUCCESS and holds its
\* buffer.
C30_ResolvedTracksAreLoaded ==
  [][(/\ batch'.kind = "batch"
      /\ batch'.promise = "resolved"
      /\ (batch = NoBatch \/ batch.promise = "pending")) =>
       \A k \in 1..Len(batch'.trackLoadPromises) :
         LET t == calls'[batch'.trackLoadPromises[k]].track
         IN loadStatus'[t] = "LOAD_SUCCESS" /\ audioBuffer'[t]]_vars

\* C31: a pLoadSingleTrack call that marked its track LOADING and waits for
\* s3.getObject or decodeAudioData leads to a state where its promise is
\* settled and the track is LOAD_SUCCESS or LOAD_FAILED; and no step takes
\* a LOADING track to NOT_LOADED: the track an addTrackAsLoading call
\* deallocated was LOAD_SUCCESS.
C31_LoadingEventuallyLeft ==
  /\ \A i \in 1..MaxCalls :
       (Len(calls) >= i /\ calls[i].promise \in Pending
          /\ loadStatus[calls[i].track] = "LOADING")
         ~> (/\ Len(calls) >= i
             /\ calls[i].promise \in Settled
             /\ loadStatus[calls[i].track] \in {"LOAD_SUCCESS", "LOAD_FAILED"})
  /\ [][/\ \A t \in Tracks :
             loadStatus[t] = "LOADING" => loadStatus'[t] # "NOT_LOADED"
        /\ lastAdd'.evicted # NoTrack =>
             loadStatus[lastAdd'.evicted] = "LOAD_SUCCESS"]_vars

\* C31 witness: two calls marked their tracks LOADING; the first ended
\* resolved with its track LOAD_SUCCESS, the second rejected by a fetch or
\* decode error with its track LOAD_FAILED, in a cache one short of full
C31_Witness ==
  /\ Len(calls) = 2
  /\ calls[1].promise = "resolved"
  /\ calls[2].promise \in {"rejFetch", "rejDecode"}
  /\ loadStatus[calls[1].track] = "LOAD_SUCCESS"
  /\ loadStatus[calls[2].track] = "LOAD_FAILED"
  /\ _getNumTracksLoadedOrLoading(TC) = MAX_TRACKS - 1

(***************************************************************************)
(* Properties of the mixer channel.                                         *)
(***************************************************************************)
\* the edges of the channel state machine
C4_Edges ==
  {<<"stopped", "play-scheduled">>, <<"play-scheduled", "playing">>,
   <<"playing", "stop-scheduled">>, <<"stop-scheduled", "stopped">>}

\* the value _playState had before the i-th assignment of the step
C4_From(i) == IF i = 1 THEN mc._playState ELSE mc'.trail[i - 1][1]

C5_TrackNotLoadedThenPlay ==
  \A s \in AllSubmissions :
    LET r == addActionMc(Fresh(mc), now, TrackBuffer, s[1], s[2], s[3], s[4])
    IN /\ (mc.sourceNode = NoNode /\ ~TrackBuffer) =>
            (r.ret = "threw" /\ r.mc = Fresh(mc))
       /\ (/\ TrackBuffer
           /\ mc._playState = "stopped"
           /\ s[1].type = "PLAY"
           /\ s[1].trackGuid = mc.track
           /\ s[4] = Null) =>
            (r.ret = "true" /\ r.mc._playState = "play-scheduled")

\* C5 witness: addActionMc threw TrackNotLoaded, the load of the track then
\* resolved, and the last call, a PLAY, left the channel
\* STOPPED_AND_PLAY_SCHEDULED.
C5_Witness ==
  /\ thrown
  /\ Len(calls) = 1 /\ calls[1].promise = "resolved"
  /\ loadStatus[HostedTrack] = "LOAD_SUCCESS"
  /\ TrackBuffer
  /\ mc._playState = "play-scheduled"
  /\ mc.trail = << <<"play-scheduled", "_actionPlayHelper">> >>
  /\ mc.sourceNode.starts = 1

RECURSIVE C6_ApplyToEach(_, _)
\* addActionMc applied to every element of the list, in order: the channel
\* afterwards, and whether every element was accepted
C6_ApplyToEach(m, actionList) ==
  IF actionList = <<>> THEN [mc |-> m, all |-> TRUE]
  ELSE LET r == addActionMc(m, now, TrackBuffer, Head(actionList),
                            Null, Null, Null)
           rest == C6_ApplyToEach(r.mc, Tail(actionList))
       IN [mc |-> rest.mc, all |-> r.ret = "true" /\ rest.all]

\* C6: addActions leaves the channel as addActionMc applied to every element
\* of the list in order leaves it, the elements after a rejected one
\* included, and returns true only if every element was accepted.
C6_AppliesToEveryElement ==
  TrackBuffer =>
    \A actionList \in AllActionLists :
      LET r == addActions(Fresh(mc), now, TrackBuffer, actionList,
                          Null, Null, Null)
          each == C6_ApplyToEach(Fresh(mc), actionList)
      IN /\ r.mc = each.mc
         /\ r.ret = "true" => each.all

\* the action time with AT_TIME_NOW resolved, plus the base offset, minus
\* the mix set offset
C7_EffectiveTime(s) ==
  (IF s[1].timeMSAbs = AT_TIME_NOW THEN now ELSE s[1].timeMSAbs)
  + (IF s[2] = Null THEN 0 ELSE s[2]) - (IF s[3] = Null THEN 0 ELSE s[3])

C7_MinTime(s) == IF s[4] = Null THEN 0 ELSE s[4]

\* C7: on a channel whose track is loaded, an action for the hosted track
\* whose effective time is earlier than the minimum time is rejected (false
\* is returned, and _playState, the scheduled times and the log stay as
\* they are), and an action that nothing else can reject, a PITCH, is
\* rejected only if its effective time is earlier than the minimum time.
C7_RejectedIffEffectiveTimeEarly ==
  TrackBuffer =>
    \A s \in AllSubmissions :
      s[1].trackGuid = mc.track =>
        LET r == addActionMc(Fresh(mc), now, TrackBuffer, s[1], s[2], s[3], s[4])
        IN /\ C7_EffectiveTime(s) < C7_MinTime(s) =>
                /\ r.ret = "false"
                /\ r.mc._playState = mc._playState
                /\ r.mc.startScheduledTimeMS = mc.startScheduledTimeMS
                /\ r.mc.stopScheduledTimeMS = mc.stopScheduledTimeMS
                /\ r.mc.actionsAddedCollection = mc.actionsAddedCollection
           /\ (s[1].type = "PITCH" /\ r.ret = "false") =>
                C7_EffectiveTime(s) < C7_MinTime(s)

\* C8: on a channel whose track is loaded, addActionMc with an action of
\* another track returns false, schedules nothing on the gain node or on
\* the source node, and leaves _playState, the scheduled times, the
\* offsets, isBent and the log as they are, whatever the action type and
\* the play state.
C8_OtherTrackRejected ==
  TrackBuffer =>
    \A s \in AllSubmissions :
      s[1].trackGuid # mc.track =>
        LET r == addActionMc(Fresh(mc), now, TrackBuffer, s[1], s[2], s[3], s[4])
        IN /\ r.ret = "false"
           /\ r.mc.gainNode = mc.gainNode
           /\ \/ r.mc.sourceNode = mc.sourceNode
              \/ mc.sourceNode = NoNode /\ r.mc.sourceNode = NewSourceNode
           /\ r.mc._playState = mc._playState
           /\ r.mc.trail = <<>>
           /\ r.mc.startScheduledTimeMS = mc.startScheduledTimeMS
           /\ r.mc.stopScheduledTimeMS = mc.stopScheduledTimeMS
           /\ r.mc.startedAtOffsetMS = mc.startedAtOffsetMS
           /\ r.mc.stoppedAtOffsetMS = mc.stoppedAtOffsetMS
           /\ r.mc.isBent = mc.isBent
           /\ r.mc.preBendPitchValue = mc.preBendPitchValue
           /\ r.mc.actionsAddedCollection = mc.actionsAddedCollection

\* C8 witness: the channel plays, with a stop scheduled and a log of two
\* actions, and a STOP of another track submitted now returns false and
\* leaves the channel as it is.
C8_Witness ==
  /\ TrackBuffer
  /\ mc._playState = "stop-scheduled"
  /\ Len(mc.actionsAddedCollection) = 2
  /\ \E s \in Submissions :
       /\ s[1].type = "STOP"
       /\ s[1].trackGuid = OtherTrack
       /\ LET r == addActionMc(Fresh(mc), now, TrackBuffer, s[1], s[2], s[3], s[4])
          IN r.ret = "false" /\ r.mc = Fresh(mc)

\* C14: once the clock has reached stopScheduledTimeMS, a channel in
\* PLAYING_AND_STOP_SCHEDULED is reported STOPPED by _getPlayState, its
\* getTrackCurrentOffsetMS returns stoppedAtOffsetMS, and a PLAY of the
\* hosted track is accepted, without any 'ended' callback.
C14_StoppedOnceStopTimeReached ==
  (mc._playState = "stop-scheduled" /\ now >= mc.stopScheduledTimeMS) =>
     /\ _getPlayState(Fresh(mc), now)._playState = "stopped"
     /\ getTrackCurrentOffsetMS(Fresh(mc), now).val = mc.stoppedAtOffsetMS
     /\ addActionMc(Fresh(mc), now, TrackBuffer,
                    TrackAction("PLAY", HostedTrack, AT_TIME_NOW, Null, Null,
                                Null, Null),
                    Null, Null, Null).ret = "true"

\* the play state a query made now reports
C15_Reported == _getPlayState(Fresh(mc), now)._playState

\* C15: a STOP of the hosted track that addActionMc accepts while the
\* channel is PLAYING leaves it PLAYING_AND_STOP_SCHEDULED, with
\* stopScheduledTimeMS the effective time t, one stop() call on the source
\* node, at t, and stoppedAtOffsetMS = startedAtOffsetMS +
\* (t - startScheduledTimeMS); queries made at any later time return the
\* channel with the same stoppedAtOffsetMS, and no step that leaves the
\* channel PLAYING_AND_STOP_SCHEDULED changes it.
C15_StopFreezesOffset ==
  /\ [](TrackBuffer =>
          \A s \in AllSubmissions :
            LET r == addActionMc(Fresh(mc), now, TrackBuffer, s[1], s[2], s[3], s[4])
                t == C7_EffectiveTime(s)
            IN (/\ s[1].type = "STOP"
                /\ s[1].trackGuid = mc.track
                /\ C15_Reported = "playing"
                /\ r.ret = "true") =>
                  /\ r.mc._playState = "stop-scheduled"
                  /\ r.mc.stopScheduledTimeMS = t
                  /\ r.mc.sourceNode.stops = 1
                  /\ r.mc.sourceNode.stopAt = t
                  /\ r.mc.sourceNode =
                       [mc.sourceNode EXCEPT !.stops = 1, !.stopAt = t]
                  /\ r.mc.stoppedAtOffsetMS =
                       mc.startedAtOffsetMS + (t - mc.startScheduledTimeMS)
                  /\ \A later \in now..MaxTime :
                       getTrackCurrentOffsetMS(r.mc, later).mc.stoppedAtOffsetMS
                         = r.mc.stoppedAtOffsetMS)
  /\ [][(mc._playState = "stop-scheduled" /\ mc'._playState = "stop-scheduled")
         => mc'.stoppedAtOffsetMS = mc.stoppedAtOffsetMS]_vars

\* C15 witness: the last call was a STOP accepted at time 1 for time 2, on
\* a channel that started at time 0 at offset 0: the stop is scheduled at 2
\* and the offset frozen is 2.
C15_Witness ==
  /\ now = 1
  /\ mc._playState = "stop-scheduled"
  /\ mc.trail # <<>>
  /\ mc.trail[Len(mc.trail)] = <<"stop-scheduled", "_actionStopHelper">>
  /\ mc.startScheduledTimeMS = 0
  /\ mc.startedAtOffsetMS = 0
  /\ mc.stopScheduledTimeMS = 2
  /\ mc.sourceNode.stops = 1
  /\ mc.stoppedAtOffsetMS = 2

\* C16: on a channel whose track is loaded, a PLAY of the hosted track
\* submitted when a query reports a state other than STOPPED, and a STOP
\* submitted when it reports a state other than PLAYING, returns false,
\* calls nothing on the source node or the gain node, leaves the state a
\* query reports, the scheduled times, the offsets and the log as they
\* are, whether the action is for the current time or not.
C16_WrongStateRejected ==
  TrackBuffer =>
    \A s \in AllSubmissions :
      LET r == addActionMc(Fresh(mc), now, TrackBuffer, s[1], s[2], s[3], s[4])
      IN (/\ s[1].trackGuid = mc.track
          /\ \/ s[1].type = "PLAY" /\ C15_Reported # "stopped"
             \/ s[1].type = "STOP" /\ C15_Reported # "playing") =>
            /\ r.ret = "false"
            /\ \/ r.mc.sourceNode = mc.sourceNode
               \/ mc.sourceNode = NoNode /\ r.mc.sourceNode = NewSourceNode
            /\ r.mc.gainNode = mc.gainNode
            /\ _getPlayState(r.mc, now)._playState = C15_Reported
            /\ r.mc.startScheduledTimeMS = mc.startScheduledTimeMS
            /\ r.mc.stopScheduledTimeMS = mc.stopScheduledTimeMS
            /\ r.mc.startedAtOffsetMS = mc.startedAtOffsetMS
            /\ r.mc.stoppedAtOffsetMS = mc.stoppedAtOffsetMS
            /\ r.mc.actionsAddedCollection = mc.actionsAddedCollection

\* C16 witness: the channel plays with a stop scheduled, and both a PLAY
\* and a STOP of the hosted track for the current time return false and
\* leave the channel as it is.
C16_Witness ==
  /\ TrackBuffer
  /\ mc._playState = "stop-scheduled"
  /\ \A type \in {"PLAY", "STOP"} :
       LET r == addActionMc(Fresh(mc), now, TrackBuffer,
                            TrackAction(type, HostedTrack, AT_TIME_NOW, Null,
                                        Null, Null, Null),
                            Null, Null, Null)
       IN r.ret = "false" /\ r.mc = Fresh(mc)

\* C17: on a channel whose track is loaded, clearActions called when a query
\* reports STOPPED or STOPPED_AND_PLAY_SCHEDULED, or called with
\* forceSourceNodeReset, leaves the channel STOPPED, the two scheduled times
\* and the two offsets unset, the log empty, and a new source node with
\* nothing scheduled on it.
C17_ClearActionsResets ==
  TrackBuffer =>
    \A forceSourceNodeReset \in BOOLEAN, forceGainNodeReset \in BOOLEAN :
      (C15_Reported \in {"stopped", "play-scheduled"} \/ forceSourceNodeReset) =>
        LET m == clearActions(Fresh(mc), now, TrackBuffer, forceSourceNodeReset,
                              forceGainNodeReset).mc
        IN /\ m._playState = "stopped"
           /\ m.startScheduledTimeMS = INVALID_TIME_VAL
           /\ m.stopScheduledTimeMS = INVALID_TIME_VAL
           /\ m.startedAtOffsetMS = INVALID_TIME_VAL
           /\ m.stoppedAtOffsetMS = INVALID_TIME_VAL
           /\ m.actionsAddedCollection = <<>>
           /\ m.sourceNode = NewSourceNode

C19_GainAutomationCleared ==
  mc.sourceNode # NoNode =>
    \A forceSourceNodeReset \in BOOLEAN, forceGainNodeReset \in BOOLEAN :
      LET m == clearActions(Fresh(mc), now, TrackBuffer, forceSourceNodeReset,
                            forceGainNodeReset).mc
      IN /\ m.gainNode.ramps = <<>>
         /\ forceGainNodeReset => m.gainNode = NewGainNode

C21_Ensured == _ensureSourceNodePresent(Fresh(mc), now, TrackBuffer)

\* C21: on a channel that has or can get a source node, pitchBend with
\* isBent false returns true, saves the playback rate of the moment in
\* preBendPitchValue and makes the rate that value plus (pb_up) or minus
\* (pb_down) PITCH_BEND_FACTOR at once; a pitchBend after it, in either
\* direction and at any later time, returns false and changes nothing; a
\* pitchBendRestore after it makes the rate the saved one and clears isBent;
\* with isBent false pitchBendRestore schedules nothing and changes nothing.
C21_PitchBend ==
  C21_Ensured.ret =>
    LET e == C21_Ensured.mc
        rate == PlaybackRateValue(e.sourceNode, now)
    IN /\ \A direction \in {"pb_up", "pb_down"} :
            LET b == pitchBend(Fresh(mc), now, TrackBuffer, direction)
            IN IF mc.isBent
               THEN b.ret = "false" /\ b.mc = e
               ELSE /\ b.ret = "true"
                    /\ b.mc.isBent
                    /\ b.mc.preBendPitchValue = rate
                    /\ PlaybackRateValue(b.mc.sourceNode, now)
                         = IF direction = "pb_up" THEN rate + PITCH_BEND_FACTOR
                                                  ELSE rate - PITCH_BEND_FACTOR
                    /\ b.mc = [e EXCEPT !.isBent = TRUE,
                                        !.preBendPitchValue = rate,
                                        !.sourceNode.rates = b.mc.sourceNode.rates]
                    /\ \A t \in now..MaxTime :
                         /\ \A again \in {"pb_up", "pb_down"} :
                              LET b2 == pitchBend(b.mc, t, TrackBuffer, again)
                              IN b2.ret = "false" /\ b2.mc = b.mc
                         /\ LET r == pitchBendRestore(b.mc, t, TrackBuffer)
                            IN /\ ~r.mc.isBent
                               /\ PlaybackRateValue(r.mc.sourceNode, t) = rate
                               /\ r.mc = [b.mc EXCEPT !.isBent = FALSE,
                                            !.sourceNode.rates = r.mc.sourceNode.rates]
       /\ ~mc.isBent => pitchBendRestore(Fresh(mc), now, TrackBuffer).mc = e
       /\ mc.isBent =>
            LET r == pitchBendRestore(Fresh(mc), now, TrackBuffer).mc
            IN /\ ~r.isBent
               /\ PlaybackRateValue(r.sourceNode, now) = mc.preBendPitchValue

\* C21 witness: a bend saved the rate 1.0 and a pitchBendRestore put it back
\* at time 2
C21_Witness ==
  /\ mc.sourceNode # NoNode
  /\ ~mc.isBent
  /\ mc.preBendPitchValue = 100
  /\ mc.sourceNode.rates = << <<100, 2>> >>

\* the submission s is for the hosted track and passes the time test of
\* addActionMc
C22_PassesChecks(s) ==
  /\ s[1].trackGuid = mc.track
  /\ _filterAtTimeNow(now, s[1].timeMSAbs) >= C7_MinTime(s)

\* C22: on a channel that has or can get a source node, a GAIN_FADE action
\* for the hosted track that passes the time test makes addActionMc return
\* true, leaves the play state a query reports, and appends two ramps to the
\* gain node: to 1 - endVal at the effective time of the action, and to
\* endVal fadeNumBeats / bpm * 60 seconds later.
C22_GainFadeAccepted ==
  C21_Ensured.ret =>
    \A s \in AllSubmissions :
      (s[1].type = "GAIN_FADE" /\ C22_PassesChecks(s)) =>
        LET r == addActionMc(Fresh(mc), now, TrackBuffer, s[1], s[2], s[3], s[4])
        IN /\ r.ret = "true"
           /\ _getPlayState(r.mc, now)._playState = C15_Reported
           /\ r.mc.gainNode.ramps =
                 mc.gainNode.ramps \o
                   << <<100 - s[1].endVal, C7_EffectiveTime(s)>>,
                      <<s[1].endVal,
                        C7_EffectiveTime(s)
                          + (s[1].fadeNumBeats * 60 * 1000) \div TrackBpm>> >>

\* C23: on a channel that has or can get a source node, a PAUSE action for
\* the hosted track that passes the time test makes addActionMc return
\* true, so that a list holding it can make addActions return true, and
\* leaves the play state, the scheduled times, the offsets and both nodes
\* as they are.
C23_PauseAccepted ==
  C21_Ensured.ret =>
    /\ \A s \in AllSubmissions :
         (s[1].type = "PAUSE" /\ C22_PassesChecks(s)) =>
           LET r == addActionMc(Fresh(mc), now, TrackBuffer, s[1], s[2], s[3], s[4])
           IN /\ r.ret = "true"
              /\ r.mc._playState = mc._playState
              /\ r.mc.startScheduledTimeMS = mc.startScheduledTimeMS
              /\ r.mc.stopScheduledTimeMS = mc.stopScheduledTimeMS
              /\ r.mc.startedAtOffsetMS = mc.startedAtOffsetMS
              /\ r.mc.stoppedAtOffsetMS = mc.stoppedAtOffsetMS
              /\ r.mc.sourceNode = C21_Ensured.mc.sourceNode
              /\ r.mc.gainNode = mc.gainNode
    /\ \E actionList \in AllActionLists :
         /\ \E i \in 1..Len(actionList) : actionList[i].type = "PAUSE"
         /\ addActions(Fresh(mc), now, TrackBuffer, actionList,
                       Null, Null, Null).ret = "true"

\* C24: on a channel that has or can get a source node, a PITCH action for
\* the hosted track that passes the time test makes addActionMc return
\* true; it appends one playback-rate event, the pitch value at the
\* effective time of the action, clears isBent, appends its copy to the log
\* and leaves the rest of the channel, _playState, the scheduled times and
\* the offsets included, as it is; a pitchBendRestore after it, at any
\* later time, schedules nothing.
C24_PitchAccepted ==
  C21_Ensured.ret =>
    \A s \in AllSubmissions :
      (s[1].type = "PITCH" /\ C22_PassesChecks(s)) =>
        LET e == C21_Ensured.mc
            r == addActionMc(Fresh(mc), now, TrackBuffer, s[1], s[2], s[3], s[4])
        IN /\ r.ret = "true"
           /\ r.mc = [e EXCEPT
                        !.sourceNode.rates =
                           Append(@, <<s[1].pitchValue, C7_EffectiveTime(s)>>),
                        !.isBent = FALSE,
                        !.actionsAddedCollection =
                           Append(@, [s[1] EXCEPT !.timeMSAbs = C7_EffectiveTime(s)])]
           /\ \A t \in now..MaxTime :
                pitchBendRestore(r.mc, t, TrackBuffer).mc = r.mc

\* C24 witness: a bend saved the rate 1.0, and a PITCH action accepted at
\* time 1 on a source node made since cleared isBent
C24_Witness ==
  /\ mc.sourceNode # NoNode
  /\ mc.preBendPitchValue = 100
  /\ ~mc.isBent
  /\ mc.sourceNode.rates = << <<110, 1>> >>
  /\ Len(mc.actionsAddedCollection) >= 1
  /\ mc.actionsAddedCollection[Len(mc.actionsAddedCollection)].type = "PITCH"

\* C25: whenever the 'ended' event of the channel's source node can fire
\* (the node was started, at a time that has come), in any play state, its
\* callback leaves the channel STOPPED, for a query as well, with a new
\* source node on which nothing is scheduled and an empty log.
C25_EndedStopsAndDiscards ==
  (/\ mc.sourceNode # NoNode
   /\ mc.sourceNode.onended
   /\ mc.sourceNode.starts >= 1
   /\ mc.sourceNode.startAt <= now) =>
    LET m == _processPlaybackEnded(Fresh(mc), now, TrackBuffer)
    IN /\ m._playState = "stopped"
       /\ _getPlayState(m, now)._playState = "stopped"
       /\ m.sourceNode = NewSourceNode
       /\ m.actionsAddedCollection = <<>>

\* C25 witness: the 'ended' callback has just run on a channel that had a
\* stop scheduled for a time still to come
C25_Witness ==
  /\ mc._playState = "stopped"
  /\ mc.trail = << <<"stopped", "_processPlaybackEnded">> >>
  /\ mc.stopScheduledTimeMS > now
  /\ mc.stoppedAtOffsetMS # INVALID_TIME_VAL
  /\ mc.sourceNode = NewSourceNode
  /\ mc.actionsAddedCollection = <<>>

\* C26: whatever action and time arguments addActionMc is called with, the
\* log afterwards is the log before, or the log before plus one entry; that
\* entry is the copy of the action, which targets the source node and was
\* accepted, and its time, the effective time, is not before the clock.
C26_LogEntriesNotInThePast ==
  C21_Ensured.ret =>
    \A s \in AllSubmissions :
      LET r == addActionMc(Fresh(mc), now, TrackBuffer, s[1], s[2], s[3], s[4])
          log == r.mc.actionsAddedCollection
      IN \/ log = mc.actionsAddedCollection
         \/ /\ log = Append(mc.actionsAddedCollection, log[Len(log)])
            /\ log[Len(log)] = [s[1] EXCEPT !.timeMSAbs = C7_EffectiveTime(s)]
            /\ getActionTarget(s[1]) = "SOURCE"
            /\ r.ret = "true"
            /\ log[Len(log)].timeMSAbs >= now

\* C27: _sourceNodeRecreate with deleteOldNode and addBackOldActions, on a
\* channel that has a source node and a loaded track, in any play state,
\* leaves in the log exactly the entries whose time is not before the
\* clock, in their order.
C27_ReplayKeepsFutureActions ==
  (mc.sourceNode # NoNode /\ TrackBuffer) =>
    _sourceNodeRecreate(Fresh(mc), now, TrackBuffer, TRUE, TRUE)
        .mc.actionsAddedCollection
      = SelectSeq(mc.actionsAddedCollection, LAMBDA a : a.timeMSAbs >= now)

\* C28: when the 'ended' event of a discarded source node can fire, its
\* callback leaves _playState, the current source node and the log as they
\* are.
C28_StaleEndedIgnored ==
  \A i \in 1..Len(orphans) :
    orphans[i] <= now =>
      LET m == _processPlaybackEnded(Fresh(mc), now, TrackBuffer)
      IN /\ m._playState = mc._playState
         /\ m.sourceNode = mc.sourceNode
         /\ m.actionsAddedCollection = mc.actionsAddedCollection

\* C32: start() was called at most once and stop() at most once on the
\* current source node, and stop() only on a node on which start() was
\* called; every PLAY that addActionMc accepts finds a source node on which
\* start() was never called, and every STOP it accepts one on which start()
\* was called and stop() was not.
C32_OneStartOneStopPerNode ==
  /\ mc.sourceNode # NoNode =>
       /\ mc.sourceNode.starts <= 1
       /\ mc.sourceNode.stops <= 1
       /\ mc.sourceNode.stops = 1 => mc.sourceNode.starts = 1
  /\ C21_Ensured.ret =>
       \A s \in AllSubmissions :
         LET r == addActionMc(Fresh(mc), now, TrackBuffer, s[1], s[2], s[3], s[4])
             n == C21_Ensured.mc.sourceNode
         IN /\ (s[1].type = "PLAY" /\ r.ret = "true") =>
                 (n.starts = 0 /\ n.stops = 0 /\ r.mc.sourceNode.starts = 1)
            /\ (s[1].type = "STOP" /\ r.ret = "true") =>
                 (n.starts = 1 /\ n.stops = 0 /\ r.mc.sourceNode.stops = 1)

\* C32 witness: a PLAY was accepted on a source node made after an earlier
\* one had a start and a stop scheduled and ended
C32_Witness ==
  /\ mc._playState = "play-scheduled"
  /\ mc.trail = << <<"play-scheduled", "_actionPlayHelper">> >>
  /\ mc.stopScheduledTimeMS # INVALID_TIME_VAL
  /\ mc.sourceNode.starts = 1
  /\ mc.sourceNode.stops = 0
====
